---- MODULE Spec2Model ----
(***************************************************************************)
(* Credential pool manager (APIKeyManager) and the session lock of the     *)
(* generation client (GeminiClient) of the ImageGenerator application.     *)
(* Time is the value of time.time() in seconds.                            *)
(***************************************************************************)
EXTENDS Integers, Sequences, FiniteSets, TLC

VARIABLES
    keys_file,       \* content of config/api_keys.json
    api_keys,        \* APIKeyManager.api_keys
    settings,        \* APIKeyManager.settings
    usage_tracker,   \* APIKeyManager.usage_tracker
    rate_limits,     \* APIKeyManager.rate_limits: key -> time of last use
    error_counts,    \* APIKeyManager.error_counts: key -> {last_error}
    current_index,   \* APIKeyManager.current_index
    locked_api_key,  \* GeminiClient.locked_api_key
    current_api_key, \* GeminiClient.current_api_key (key of current_client)
    clock,           \* time.time()
    op,              \* the operation called last
    arg,             \* its argument, or the message it displayed
    ret,             \* its return value
    calls,           \* get_next_key calls since the tracking maps were cleared
    remote,          \* remote calls issued by the operation called last
    threads,         \* callers inside get_next_key: position and locals
    peer,            \* locked_api_key, current_api_key of a second GeminiClient
    twin             \* a second APIKeyManager, constructed when the first is reset

vars == <<keys_file, api_keys, settings, usage_tracker, rate_limits,
          error_counts, current_index, locked_api_key, current_api_key,
          clock, op, arg, ret, calls, remote, threads, peer, twin>>

tracking == <<usage_tracker, rate_limits, error_counts, current_index>>
session == <<locked_api_key, current_api_key>>
others == <<threads, peer, twin>>

(* ------------------------------ bounds --------------------------------- *)

\* value of time.time() when the manager is constructed
Epoch == 1000
\* the clock is followed for this many seconds after construction
MaxElapsed == 61
\* get_next_key calls followed since the tracking maps were last cleared
MaxCalls == 5
\* credentials handed to one concurrent caller
MaxGiven == 2

\* value of time.time() at construction on a system whose clock was never set
EarlyEpoch == 0

TickSteps == {30, 31}

(* ----------------------------- constants ------------------------------- *)

NoKey == "none"
Keys == {"A", "B"}
LongList == <<"K01", "K02", "K03", "K04", "K05", "K06", "K07", "K08", "K09",
              "K10", "K11">>

MaxKeys == 10
SecondsPerMinute == 60
DefaultErrorCooldown == 5
DefaultRateLimitCooldown == 1
FallbackRateLimitCooldown == 5
FallbackErrorCooldown == 15
DailyCapacityPerKey == 50

RateKey == "rate_limit_cooldown_minutes"
ErrorKey == "error_cooldown_minutes"

Range(s) == {s[i] : i \in 1..Len(s)}
Min(a, b) == IF a < b THEN a ELSE b
EmptyMap == [k \in {} |-> 0]

default_settings == [k \in {RateKey, ErrorKey} |->
                       IF k = RateKey THEN DefaultRateLimitCooldown
                                      ELSE DefaultErrorCooldown]

MkSettings(r, e) == [k \in {RateKey, ErrorKey} |-> IF k = RateKey THEN r ELSE e]

\* sum(d.values())
RECURSIVE SumOver(_, _)
SumOver(f, S) ==
    IF S = {} THEN 0
    ELSE LET x == CHOOSE y \in S : TRUE IN f[x] + SumOver(f, S \ {x})

\* dict.get(name, default)
Get(d, k, default) == IF k \in DOMAIN d THEN d[k] ELSE default

(* --------------------------- persisted state --------------------------- *)

\* credential lists found in the file or submitted by the operator
KeyLists == {<<>>, <<"A">>, <<"A", "B">>, <<"B", "A">>, <<"A", "A">>,
             <<"A", "B", "C">>, LongList}

FileSettings == {MkSettings(0, 0), MkSettings(1, 1)}

\* the configuration file: absent, unreadable, or a JSON object whose
\* "keys" and "settings" members may each be absent
FileStates ==
    {[status |-> "missing", has_keys |-> FALSE, keys |-> <<>>,
      has_settings |-> FALSE, settings |-> EmptyMap],
     [status |-> "corrupt", has_keys |-> FALSE, keys |-> <<>>,
      has_settings |-> FALSE, settings |-> EmptyMap]}
    \cup {[status |-> "ok", has_keys |-> TRUE, keys |-> ks,
           has_settings |-> TRUE, settings |-> s] :
            ks \in KeyLists, s \in FileSettings}
    \cup {[status |-> "ok", has_keys |-> TRUE, keys |-> ks,
           has_settings |-> FALSE, settings |-> EmptyMap] :
            ks \in {<<"A", "B">>}}
    \cup {[status |-> "ok", has_keys |-> TRUE, keys |-> ks,
           has_settings |-> TRUE, settings |-> EmptyMap] :
            ks \in {<<"A", "B">>}}

_load_keys(f) ==
    IF f.status = "ok" /\ f.has_keys THEN f.keys ELSE <<>>

\* an empty dict returned when the file cannot be used
_load_settings_empty_on_error(f) ==
    IF f.status = "ok" /\ f.has_settings THEN f.settings ELSE EmptyMap

_load_settings(f) ==
    IF f.status = "ok" /\ f.has_settings THEN f.settings ELSE default_settings

(* ------------------------- availability tracker ------------------------ *)

rate_limit_cd(s) == Get(s, RateKey, FallbackRateLimitCooldown) * SecondsPerMinute
error_cd(s) == Get(s, ErrorKey, FallbackErrorCooldown) * SecondsPerMinute

last_used(rl, key) == Get(rl, key, 0)
last_err(ec, key) == IF key \in DOMAIN ec THEN ec[key].last_error ELSE 0

\* the rate-limit test left out
_is_key_available_no_rate(key, now, s, rl, ec) ==
    IF now - last_err(ec, key) < error_cd(s) THEN FALSE
    ELSE TRUE

\* the error test left out
_is_key_available_no_error(key, now, s, rl, ec) ==
    IF now - last_used(rl, key) < rate_limit_cd(s) THEN FALSE
    ELSE TRUE

_is_key_available(key, now, s, rl, ec) ==
    IF now - last_used(rl, key) < rate_limit_cd(s) THEN FALSE
    ELSE IF now - last_err(ec, key) < error_cd(s) THEN FALSE
    ELSE TRUE

IsAvail(key) == _is_key_available(key, clock, settings, rate_limits, error_counts)

get_active_keys_count ==
    Cardinality({i \in 1..Len(api_keys) : IsAvail(api_keys[i])})

(* ---------------------------- rotation engine -------------------------- *)

\* The mutable state the operations below work on, as one record; out is the
\* value returned and msg the message displayed.
Cur == [ut |-> usage_tracker, rl |-> rate_limits, ec |-> error_counts,
        idx |-> current_index, locked |-> locked_api_key,
        current |-> current_api_key, calls |-> calls, remote |-> <<>>,
        out |-> NoKey, msg |-> NoKey, seen |-> 0]

\* the assignment of line 121 left out
_update_usage_count_only(st, key) ==
    [st EXCEPT !.ut = (key :> (Get(st.ut, key, 0) + 1)) @@ st.ut]

_update_usage(st, key) ==
    [st EXCEPT !.ut = (key :> (Get(st.ut, key, 0) + 1)) @@ st.ut,
               !.rl = (key :> clock) @@ st.rl]

\* the time of the report stored as a last use as well
mark_key_error_stamping_use(st, key) ==
    [st EXCEPT !.ec = (key :> [last_error |-> clock]) @@ st.ec,
               !.rl = (key :> clock) @@ st.rl]

mark_key_error(st, key) ==
    [st EXCEPT !.ec = (key :> [last_error |-> clock]) @@ st.ec]

\* the cursor set back to the start when no credential is found
RECURSIVE Scan_rewinding(_, _, _)
Scan_rewinding(st, attempts, total) ==
    IF attempts >= total THEN [st EXCEPT !.out = NoKey, !.seen = attempts, !.idx = 0]
    ELSE LET key == api_keys[st.idx + 1] IN
         IF _is_key_available(key, clock, settings, st.rl, st.ec)
           THEN [_update_usage(st, key) EXCEPT !.out = key, !.seen = attempts + 1]
           ELSE Scan_rewinding([st EXCEPT !.idx = (st.idx + 1) % total],
                               attempts + 1, total)

\* the cursor moved before the credential under it is read
RECURSIVE Scan_advancing_first(_, _, _)
Scan_advancing_first(st, attempts, total) ==
    IF attempts >= total THEN [st EXCEPT !.out = NoKey, !.seen = attempts]
    ELSE LET s1 == [st EXCEPT !.idx = (st.idx + 1) % total]
             key == api_keys[s1.idx + 1] IN
         IF _is_key_available(key, clock, settings, s1.rl, s1.ec)
           THEN [_update_usage(s1, key) EXCEPT !.out = key, !.seen = attempts + 1]
           ELSE Scan_advancing_first(s1, attempts + 1, total)

\* the loop goes on for a second round of the list
RECURSIVE Scan_second_round(_, _, _)
Scan_second_round(st, attempts, total) ==
    IF attempts >= 2 * total THEN [st EXCEPT !.out = NoKey, !.seen = attempts]
    ELSE LET key == api_keys[st.idx + 1] IN
         IF _is_key_available(key, clock, settings, st.rl, st.ec)
           THEN [_update_usage(st, key) EXCEPT !.out = key, !.seen = attempts + 1]
           ELSE Scan_second_round([st EXCEPT !.idx = (st.idx + 1) % total],
                                  attempts + 1, total)

\* the while loop of get_next_key; seen counts the credentials handed to
\* _is_key_available
RECURSIVE Scan(_, _, _)
Scan(st, attempts, total) ==
    IF attempts >= total THEN [st EXCEPT !.out = NoKey, !.seen = attempts]
    ELSE LET key == api_keys[st.idx + 1] IN
         IF _is_key_available(key, clock, settings, st.rl, st.ec)
           THEN [_update_usage(st, key) EXCEPT !.out = key, !.seen = attempts + 1]
           ELSE Scan([st EXCEPT !.idx = (st.idx + 1) % total],
                     attempts + 1, total)

Logged(st) ==
    [st EXCEPT !.calls = Append(st.calls,
                                [t |-> clock, r |-> st.out, seen |-> st.seen])]

get_next_key(st) ==
    IF api_keys = <<>> THEN Logged([st EXCEPT !.out = NoKey, !.seen = 0])
    ELSE Logged(Scan(st, 0, Len(api_keys)))

(* ------------------------------ session lock --------------------------- *)

\* create_ok: whether genai.Client(api_key=...) returns rather than raises
\* the held lock ignored: the pool is consulted on every call
_get_client_locked_rotating(st, create_ok) ==
    LET g == get_next_key(st)
        s1 == IF g.out = NoKey THEN [g EXCEPT !.msg = "no_keys"]
              ELSE [g EXCEPT !.locked = g.out, !.msg = "locked_new"]
    IN IF s1.out = NoKey THEN s1
       ELSE IF s1.current # s1.out
         THEN IF create_ok
                THEN [s1 EXCEPT !.current = s1.out]
                ELSE [mark_key_error(s1, s1.out) EXCEPT
                        !.locked = NoKey, !.out = NoKey, !.msg = "create_failed"]
         ELSE s1

\* get_next_key asked again when it returns None
_get_client_locked_retrying(st, create_ok) ==
    LET s1 == IF st.locked # NoKey
                THEN [st EXCEPT !.out = st.locked, !.msg = "using_locked"]
                ELSE LET g1 == get_next_key(st)
                         g == IF g1.out = NoKey THEN get_next_key(g1) ELSE g1 IN
                     IF g.out = NoKey THEN [g EXCEPT !.msg = "no_keys"]
                     ELSE [g EXCEPT !.locked = g.out, !.msg = "locked_new"]
    IN IF s1.out = NoKey THEN s1
       ELSE IF s1.current # s1.out
         THEN IF create_ok
                THEN [s1 EXCEPT !.current = s1.out]
                ELSE [mark_key_error(s1, s1.out) EXCEPT
                        !.locked = NoKey, !.out = NoKey, !.msg = "create_failed"]
         ELSE s1

_get_client_locked(st, create_ok) ==
    LET s1 == IF st.locked # NoKey
                THEN [st EXCEPT !.out = st.locked, !.msg = "using_locked"]
                ELSE LET g == get_next_key(st) IN
                     IF g.out = NoKey THEN [g EXCEPT !.msg = "no_keys"]
                     ELSE [g EXCEPT !.locked = g.out, !.msg = "locked_new"]
    IN IF s1.out = NoKey THEN s1
       ELSE IF s1.current # s1.out
         THEN IF create_ok
                THEN [s1 EXCEPT !.current = s1.out]
                ELSE [mark_key_error(s1, s1.out) EXCEPT
                        !.locked = NoKey, !.out = NoKey, !.msg = "create_failed"]
         ELSE s1

\* the cursor of the pool set back as well
unlock_session_key_rewinding(st) == [st EXCEPT !.locked = NoKey, !.idx = 0]

unlock_session_key(st) == [st EXCEPT !.locked = NoKey]

UploadOutcomes == {"skipped", "ok", "error_429", "error_other"}
GenerateOutcomes == {"ok", "empty", "error_429", "error_other"}
Failures == {"error_429", "error_other"}

Called(st, kind, key, outcome) ==
    [st EXCEPT !.remote = Append(st.remote,
        [kind |-> kind, key |-> key, outcome |-> outcome,
         held |-> st.locked, t |-> clock])]

\* the for loop of _upload_images_with_locked_key; out is the number of
\* uploaded files returned
RECURSIVE UploadLoop(_, _, _, _, _)
UploadLoop(st, key, outcomes, i, uploaded) ==
    IF i > Len(outcomes) THEN [st EXCEPT !.out = uploaded]
    ELSE IF outcomes[i] = "skipped"
      THEN UploadLoop(st, key, outcomes, i + 1, uploaded)
    ELSE LET s1 == Called(st, "upload", key, outcomes[i]) IN
      IF outcomes[i] = "ok"
        THEN UploadLoop(s1, key, outcomes, i + 1, uploaded + 1)
      ELSE IF outcomes[i] = "error_429"
        THEN [unlock_session_key(mark_key_error(s1, s1.locked)) EXCEPT !.out = 0]
      ELSE UploadLoop(s1, key, outcomes, i + 1, uploaded)

_upload_images_with_locked_key(st, outcomes, create_ok) ==
    LET s1 == _get_client_locked(st, create_ok) IN
    IF s1.out = NoKey THEN [s1 EXCEPT !.out = 0]
    ELSE UploadLoop(s1, s1.out, outcomes, 1, 0)

\* refs: the outcomes of uploading the reference images given (<<>> for none)
generate_image_with_prompt(st, refs, outcome, create_ok) ==
    LET s1 == _get_client_locked(st, create_ok) IN
    IF s1.out = NoKey THEN [s1 EXCEPT !.out = "failure"]
    ELSE LET key == s1.out
             s2 == IF refs # <<>>
                     THEN _upload_images_with_locked_key(
                              s1, SubSeq(refs, 1, 1), create_ok)
                     ELSE s1
             s3 == Called(s2, "generate", key, outcome)
         IN IF outcome = "ok" THEN [s3 EXCEPT !.out = "success"]
            ELSE IF outcome = "empty" THEN [s3 EXCEPT !.out = "failure"]
            ELSE IF outcome = "error_429"
              THEN [unlock_session_key(mark_key_error(s3, s3.locked))
                      EXCEPT !.out = "failure"]
            ELSE [s3 EXCEPT !.out = "failure"]

generate_image_description_and_variations(st, refs, outcome, create_ok) ==
    LET s1 == generate_image_with_prompt(st, SubSeq(refs, 1, Min(1, Len(refs))),
                                         outcome, create_ok) IN
    IF s1.out = "success" THEN unlock_session_key(s1) ELSE s1

(* --------------------------- concurrent callers ------------------------ *)

Threads == {1, 2}

\* a caller outside get_next_key; n counts the credentials it has been given
Idle == [pc |-> "idle", key |-> NoKey, attempts |-> 0, total |-> 0, tmp |-> 0,
         out |-> NoKey, t |-> 0, n |-> 0]

(* ------------------------------ second manager ------------------------- *)

NoTwin == [live |-> FALSE, ut |-> EmptyMap, rl |-> EmptyMap, ec |-> EmptyMap,
           idx |-> 0, out |-> NoKey, dirty |-> FALSE]

(* ------------------------------- actions ------------------------------- *)

\* the manager and the client constructed when time.time() is now
InitAt(now) ==
    /\ keys_file \in FileStates
    /\ api_keys = _load_keys(keys_file)
    /\ settings = _load_settings(keys_file)
    /\ usage_tracker = EmptyMap
    /\ rate_limits = EmptyMap
    /\ error_counts = EmptyMap
    /\ current_index = 0
    /\ locked_api_key = NoKey
    /\ current_api_key = NoKey
    /\ clock = now
    /\ op = "init"
    /\ arg = NoKey
    /\ ret = NoKey
    /\ calls = <<>>
    /\ remote = <<>>
    /\ threads = [t \in Threads |-> Idle]
    /\ peer = [locked |-> NoKey, current |-> NoKey]
    /\ twin = NoTwin

Init == InitAt(Epoch)

\* the program's variables take the values the operation left in st
Assign(st) ==
    /\ usage_tracker' = st.ut
    /\ rate_limits' = st.rl
    /\ error_counts' = st.ec
    /\ current_index' = st.idx
    /\ locked_api_key' = st.locked
    /\ current_api_key' = st.current
    /\ calls' = st.calls
    /\ remote' = st.remote
    /\ ret' = st.out

Becomes(st) == Assign(st) /\ UNCHANGED others

Tick ==
    /\ \E d \in TickSteps :
         /\ clock + d <= Epoch + MaxElapsed
         /\ clock' = clock + d
    /\ UNCHANGED <<keys_file, api_keys, settings, tracking, session, op, arg,
                   ret, calls, remote, others>>

\* time passing on a system whose clock started near 0
TickEarly ==
    /\ \E d \in TickSteps :
         /\ clock + d <= EarlyEpoch + MaxElapsed
         /\ clock' = clock + d
    /\ UNCHANGED <<keys_file, api_keys, settings, tracking, session, op, arg,
                   ret, calls, remote, others>>

GetNextKey ==
    /\ Len(calls) < MaxCalls
    /\ Becomes(get_next_key(Cur))
    /\ op' = "get_next_key"
    /\ arg' = NoKey
    /\ UNCHANGED <<keys_file, api_keys, settings, clock>>

MarkKeyError ==
    /\ \E k \in Keys \cap Range(api_keys) :
         /\ Becomes(mark_key_error(Cur, k))
         /\ arg' = k
    /\ op' = "mark_key_error"
    /\ UNCHANGED <<keys_file, api_keys, settings, clock>>

\* arg tells whether the cooldown of the credential first in rotation was
\* discarded by the clearing
Discarded(keys) ==
    IF keys # <<>> /\ ~IsAvail(keys[1]) THEN "cooldown_discarded" ELSE NoKey

\* current_index = 0 left out
reset_usage_keeping_index(st) ==
    [st EXCEPT !.ut = EmptyMap, !.rl = EmptyMap, !.ec = EmptyMap, !.calls = <<>>]

\* usage_tracker.clear() left out
reset_usage_keeping_usage(st) ==
    [st EXCEPT !.rl = EmptyMap, !.ec = EmptyMap, !.idx = 0, !.calls = <<>>]

\* error_counts.clear() left out
reset_usage_keeping_errors(st) ==
    [st EXCEPT !.ut = EmptyMap, !.rl = EmptyMap, !.idx = 0, !.calls = <<>>]

reset_usage(st) ==
    [st EXCEPT !.ut = EmptyMap, !.rl = EmptyMap, !.ec = EmptyMap, !.idx = 0,
               !.calls = <<>>]

ResetUsage ==
    /\ Becomes(reset_usage(Cur))
    /\ op' = "reset_usage"
    /\ arg' = Discarded(api_keys)
    /\ UNCHANGED <<keys_file, api_keys, settings, clock>>

Distinct(keys) == \A i, j \in 1..Len(keys) : keys[i] = keys[j] => i = j

Truncate(keys) == SubSeq(keys, 1, Min(Len(keys), MaxKeys))

\* self.api_keys assigned before the file is written
AddApiKeys_assigning_first ==
    \E keys \in KeyLists, written \in BOOLEAN :
       /\ op' = "add_api_keys"
       /\ api_keys' = Truncate(keys)
       /\ IF written
            THEN /\ keys_file' = [status |-> "ok", has_keys |-> TRUE,
                                  keys |-> Truncate(keys),
                                  has_settings |-> TRUE, settings |-> settings]
                 /\ Becomes([reset_usage(Cur) EXCEPT !.out = "true"])
                 /\ arg' = Discarded(Truncate(keys))
            ELSE /\ Becomes([Cur EXCEPT !.out = "false"])
                 /\ arg' = NoKey
                 /\ UNCHANGED keys_file
       /\ UNCHANGED <<settings, clock>>

\* written: whether mkdir and write_text return rather than raise
AddApiKeys ==
    \E keys \in KeyLists, written \in BOOLEAN :
       /\ op' = "add_api_keys"
       /\ IF written
            THEN /\ keys_file' = [status |-> "ok", has_keys |-> TRUE,
                                  keys |-> Truncate(keys),
                                  has_settings |-> TRUE, settings |-> settings]
                 /\ api_keys' = Truncate(keys)
                 /\ Becomes([reset_usage(Cur) EXCEPT !.out = "true"])
                 /\ arg' = Discarded(Truncate(keys))
            ELSE /\ Becomes([Cur EXCEPT !.out = "false"])
                 /\ arg' = NoKey
                 /\ UNCHANGED <<keys_file, api_keys>>
       /\ UNCHANGED <<settings, clock>>

Acquire ==
    /\ Len(calls) < MaxCalls
    /\ \E create_ok \in BOOLEAN :
         LET st == _get_client_locked(Cur, create_ok) IN
           /\ Becomes(st)
           /\ arg' = st.msg
    /\ op' = "acquire"
    /\ UNCHANGED <<keys_file, api_keys, settings, clock>>

\* arg: the credential that was held
Release ==
    /\ Becomes(unlock_session_key(Cur))
    /\ op' = "release"
    /\ arg' = locked_api_key
    /\ UNCHANGED <<keys_file, api_keys, settings, clock>>

\* no reference image, or the outcome of uploading the one that is used
ImageOutcomes == {<<>>} \cup {<<o>> : o \in UploadOutcomes}

GenerateImage ==
    /\ Len(calls) < MaxCalls
    /\ \E refs \in ImageOutcomes, outcome \in GenerateOutcomes,
          create_ok \in BOOLEAN :
         Becomes(generate_image_with_prompt(Cur, refs, outcome, create_ok))
    /\ op' = "generate"
    /\ arg' = NoKey
    /\ UNCHANGED <<keys_file, api_keys, settings, clock>>

GenerateVariations ==
    /\ Len(calls) < MaxCalls
    /\ \E refs \in ImageOutcomes, outcome \in GenerateOutcomes,
          create_ok \in BOOLEAN :
         Becomes(generate_image_description_and_variations(
                     Cur, refs, outcome, create_ok))
    /\ op' = "generate_variations"
    /\ arg' = NoKey
    /\ UNCHANGED <<keys_file, api_keys, settings, clock>>

(* ---- the reporting surface ---- *)

\* total_requests taken as the number of credentials that were used
get_usage_stats_counting_keys ==
    [total_keys |-> Len(api_keys),
     active_keys |-> get_active_keys_count,
     total_requests |-> Cardinality(DOMAIN usage_tracker),
     usage_per_key |-> usage_tracker,
     estimated_daily_capacity |-> Len(api_keys) * DailyCapacityPerKey]

\* the dict returned, without average_per_key (a float)
get_usage_stats ==
    [total_keys |-> Len(api_keys),
     active_keys |-> get_active_keys_count,
     total_requests |-> SumOver(usage_tracker, DOMAIN usage_tracker),
     usage_per_key |-> usage_tracker,
     estimated_daily_capacity |-> Len(api_keys) * DailyCapacityPerKey]

GetUsageStats ==
    /\ Becomes([Cur EXCEPT !.out = get_usage_stats])
    /\ op' = "get_usage_stats"
    /\ arg' = NoKey
    /\ UNCHANGED <<keys_file, api_keys, settings, clock>>

GetActiveKeysCount ==
    /\ Becomes([Cur EXCEPT !.out = get_active_keys_count])
    /\ op' = "get_active_keys_count"
    /\ arg' = NoKey
    /\ UNCHANGED <<keys_file, api_keys, settings, clock>>

(* ---- get_next_key statement by statement, for callers that interleave ---- *)

ThreadFrame ==
    UNCHANGED <<keys_file, api_keys, settings, error_counts, session, clock,
                op, arg, ret, calls, remote, peer, twin>>

Moves(t, rec) == threads' = [threads EXCEPT ![t] = rec]

\* lines 74-79: the empty-pool test and the loop variables
T_Enter ==
    \E t \in Threads :
      /\ threads[t].pc = "idle"
      /\ threads[t].n < MaxGiven
      /\ IF api_keys = <<>>
           THEN Moves(t, [threads[t] EXCEPT !.out = NoKey, !.t = clock])
           ELSE Moves(t, [threads[t] EXCEPT !.pc = "loop", !.attempts = 0,
                                            !.total = Len(api_keys)])
      /\ UNCHANGED <<usage_tracker, rate_limits, current_index>>
      /\ ThreadFrame

\* lines 81-82 and 94-95: the loop test, the key under the cursor
T_Loop ==
    \E t \in Threads :
      /\ threads[t].pc = "loop"
      /\ IF threads[t].attempts < threads[t].total
           THEN Moves(t, [threads[t] EXCEPT !.pc = "check",
                                            !.key = api_keys[current_index + 1]])
           ELSE Moves(t, [threads[t] EXCEPT !.pc = "idle", !.out = NoKey,
                                            !.t = clock])
      /\ UNCHANGED <<usage_tracker, rate_limits, current_index>>
      /\ ThreadFrame

\* line 85: the availability test
T_Check ==
    \E t \in Threads :
      /\ threads[t].pc = "check"
      /\ IF IsAvail(threads[t].key)
           THEN Moves(t, [threads[t] EXCEPT !.pc = "read_usage"])
           ELSE Moves(t, [threads[t] EXCEPT !.pc = "advance"])
      /\ UNCHANGED <<usage_tracker, rate_limits, current_index>>
      /\ ThreadFrame

\* lines 91-92: the cursor moves past an unavailable key
T_Advance ==
    \E t \in Threads :
      /\ threads[t].pc = "advance"
      /\ current_index' = (current_index + 1) % threads[t].total
      /\ Moves(t, [threads[t] EXCEPT !.pc = "loop",
                                     !.attempts = threads[t].attempts + 1])
      /\ UNCHANGED <<usage_tracker, rate_limits>>
      /\ ThreadFrame

\* line 120, right-hand side: usage_tracker.get(key, 0)
T_ReadUsage ==
    \E t \in Threads :
      /\ threads[t].pc = "read_usage"
      /\ Moves(t, [threads[t] EXCEPT !.pc = "write_usage",
                       !.tmp = Get(usage_tracker, threads[t].key, 0)])
      /\ UNCHANGED <<usage_tracker, rate_limits, current_index>>
      /\ ThreadFrame

\* line 120, the store
T_WriteUsage ==
    \E t \in Threads :
      /\ threads[t].pc = "write_usage"
      /\ usage_tracker' =
            (threads[t].key :> (threads[t].tmp + 1)) @@ usage_tracker
      /\ Moves(t, [threads[t] EXCEPT !.pc = "write_time"])
      /\ UNCHANGED <<rate_limits, current_index>>
      /\ ThreadFrame

\* line 121 and the return of line 88
T_WriteTime ==
    \E t \in Threads :
      /\ threads[t].pc = "write_time"
      /\ rate_limits' = (threads[t].key :> clock) @@ rate_limits
      /\ Moves(t, [threads[t] EXCEPT !.pc = "idle", !.out = threads[t].key,
                                     !.t = clock, !.n = threads[t].n + 1])
      /\ UNCHANGED <<usage_tracker, current_index>>
      /\ ThreadFrame

(* ---- a second GeminiClient on the same manager ---- *)

\* the state the operations of the second client work on
PeerCur == [Cur EXCEPT !.locked = peer.locked, !.current = peer.current]

\* one lock field for all clients, as a class attribute would be
AssignPeer_shared(st) ==
    /\ usage_tracker' = st.ut
    /\ rate_limits' = st.rl
    /\ error_counts' = st.ec
    /\ current_index' = st.idx
    /\ peer' = [locked |-> st.locked, current |-> st.current]
    /\ locked_api_key' = st.locked
    /\ calls' = st.calls
    /\ remote' = st.remote
    /\ ret' = st.out
    /\ UNCHANGED <<current_api_key, threads, twin>>

\* the manager is shared, locked_api_key and current_api_key are the
\* second client's own
AssignPeer(st) ==
    /\ usage_tracker' = st.ut
    /\ rate_limits' = st.rl
    /\ error_counts' = st.ec
    /\ current_index' = st.idx
    /\ peer' = [locked |-> st.locked, current |-> st.current]
    /\ calls' = st.calls
    /\ remote' = st.remote
    /\ ret' = st.out
    /\ UNCHANGED <<session, threads, twin>>

PeerAcquire ==
    /\ Len(calls) < MaxCalls
    /\ \E create_ok \in BOOLEAN :
         LET st == _get_client_locked(PeerCur, create_ok) IN
           /\ AssignPeer(st)
           /\ arg' = st.msg
    /\ op' = "peer_acquire"
    /\ UNCHANGED <<keys_file, api_keys, settings, clock>>

PeerRelease ==
    /\ AssignPeer(unlock_session_key(PeerCur))
    /\ op' = "peer_release"
    /\ arg' = peer.locked
    /\ UNCHANGED <<keys_file, api_keys, settings, clock>>

\* generate_image_with_prompt without reference images, by the first client
GenerateFromPrompt ==
    /\ Len(calls) < MaxCalls
    /\ \E outcome \in GenerateOutcomes, create_ok \in BOOLEAN :
         Becomes(generate_image_with_prompt(Cur, <<>>, outcome, create_ok))
    /\ op' = "generate"
    /\ arg' = NoKey
    /\ UNCHANGED <<keys_file, api_keys, settings, clock>>

\* and by the second
PeerGenerateFromPrompt ==
    /\ Len(calls) < MaxCalls
    /\ \E outcome \in GenerateOutcomes, create_ok \in BOOLEAN :
         AssignPeer(generate_image_with_prompt(PeerCur, <<>>, outcome, create_ok))
    /\ op' = "peer_generate"
    /\ arg' = NoKey
    /\ UNCHANGED <<keys_file, api_keys, settings, clock>>

(* ---- the handlers of the API setup page ---- *)

\* str.strip() on the lines that are submitted
strip(line) ==
    CASE line = " A" -> "A"
      [] line = "   " -> ""
      [] OTHER -> line

\* str.startswith('AIza'): the credential names stand for strings that do
startswith_AIza(line) == line \notin {"", "bad"}

\* the text area split at newlines
Texts == {<<"bad">>, <<"   ">>, <<"A">>, <<"A", "B">>, <<"A", "A">>,
          <<"bad", "B", "   ", " A">>, LongList, <<"bad">> \o LongList}

RECURSIVE ValidKeys(_)
ValidKeys(text) ==
    IF text = <<>> THEN <<>>
    ELSE LET key == strip(Head(text)) IN
         IF key # "" /\ startswith_AIza(key)
           THEN <<key>> \o ValidKeys(Tail(text))
           ELSE ValidKeys(Tail(text))

\* add_api_keys(keys) called by a handler that displays shown.success when it
\* returns True and shown.failure when it returns False
add_api_keys(keys, written, shown) ==
    IF written
      THEN /\ keys_file' = [status |-> "ok", has_keys |-> TRUE,
                            keys |-> Truncate(keys),
                            has_settings |-> TRUE, settings |-> settings]
           /\ api_keys' = Truncate(keys)
           /\ Becomes([reset_usage(Cur) EXCEPT !.out = shown.success])
      ELSE /\ Becomes([Cur EXCEPT !.out = shown.failure])
           /\ UNCHANGED <<keys_file, api_keys>>

\* nothing is called: the handler displays a message and returns
Refused(message) ==
    /\ Becomes([Cur EXCEPT !.out = message])
    /\ UNCHANGED <<keys_file, api_keys>>

\* the membership test of line 129 left out
AddSingleKey_unchecked ==
    /\ \E api_key \in Keys, written \in BOOLEAN :
         /\ arg' = api_key
         /\ IF Len(api_keys) >= MaxKeys
              THEN Refused("maximum_allowed")
              ELSE add_api_keys(Append(api_keys, api_key), written,
                                [success |-> "added", failure |-> "failed"])
    /\ op' = "add_single_key"
    /\ UNCHANGED <<settings, clock>>

\* ret: the message displayed last; arg: the key submitted
AddSingleKey ==
    /\ \E api_key \in Keys, written \in BOOLEAN :
         /\ arg' = api_key
         /\ IF \E i \in 1..Len(api_keys) : api_keys[i] = api_key
              THEN Refused("already_added")
              ELSE IF Len(api_keys) >= MaxKeys
                THEN Refused("maximum_allowed")
                ELSE add_api_keys(Append(api_keys, api_key), written,
                                  [success |-> "added", failure |-> "failed"])
    /\ op' = "add_single_key"
    /\ UNCHANGED <<settings, clock>>

\* the warning of line 203 left out
add_multiple_keys_silent(text, written) ==
    LET keys == ValidKeys(text) IN
    IF keys = <<>>
      THEN Refused("no_valid_keys") /\ arg' = NoKey
      ELSE /\ arg' = NoKey
           /\ add_api_keys(Truncate(keys), written,
                           [success |-> "added", failure |-> "failed"])

\* ret: the message displayed last; arg: the warning displayed before it
add_multiple_keys(text, written) ==
    LET keys == ValidKeys(text) IN
    IF keys = <<>>
      THEN Refused("no_valid_keys") /\ arg' = NoKey
      ELSE /\ arg' = IF Len(keys) > MaxKeys THEN "only_first_10" ELSE NoKey
           /\ add_api_keys(Truncate(keys), written,
                           [success |-> "added", failure |-> "failed"])

AddMultipleKeys ==
    /\ \E text \in Texts, written \in BOOLEAN : add_multiple_keys(text, written)
    /\ op' = "add_multiple_keys"
    /\ UNCHANGED <<settings, clock>>

ClearAllKeys ==
    /\ \E written \in BOOLEAN :
         add_api_keys(<<>>, written, [success |-> "cleared", failure |-> "cleared"])
    /\ op' = "clear_all_keys"
    /\ arg' = NoKey
    /\ UNCHANGED <<settings, clock>>

(* ---- a manager that is reset, next to one newly constructed ---- *)

\* the second manager as the state the operations work on
TwinCur == [Cur EXCEPT !.ut = twin.ut, !.rl = twin.rl, !.ec = twin.ec,
                       !.idx = twin.idx, !.calls = <<>>]

Kept(st) == [twin EXCEPT !.ut = st.ut, !.rl = st.rl, !.ec = st.ec,
                         !.idx = st.idx, !.out = st.out]

\* __init__, lines 12-15, on the credential list and settings of the first;
\* dirty: whether the first had anything to clear
Constructed ==
    [NoTwin EXCEPT !.live = TRUE,
                   !.dirty = (usage_tracker # EmptyMap /\ error_counts # EmptyMap
                              /\ current_index # 0)]

TwinFrame == UNCHANGED <<keys_file, api_keys, settings, clock, threads, peer>>

ResetAndConstruct ==
    /\ Assign(reset_usage(Cur))
    /\ twin' = Constructed
    /\ op' = "reset_usage"
    /\ arg' = Discarded(api_keys)
    /\ TwinFrame

BothGetNextKey ==
    /\ Len(calls) < MaxCalls
    /\ Assign(get_next_key(Cur))
    /\ twin' = IF twin.live THEN Kept(get_next_key(TwinCur)) ELSE twin
    /\ op' = "get_next_key"
    /\ arg' = NoKey
    /\ TwinFrame

BothMarkKeyError ==
    /\ \E k \in Keys \cap Range(api_keys) :
         /\ Assign(mark_key_error(Cur, k))
         /\ twin' = IF twin.live THEN Kept(mark_key_error(TwinCur, k)) ELSE twin
         /\ arg' = k
    /\ op' = "mark_key_error"
    /\ TwinFrame

\* the operations of the credential pool
Next ==
    \/ Tick
    \/ GetNextKey
    \/ MarkKeyError
    \/ ResetUsage
    \/ AddApiKeys

Spec == Init /\ [][Next]_vars

\* one session: the generation client on top of the pool
InitSession ==
    /\ Init
    /\ keys_file.status = "ok"
    /\ keys_file.has_settings
    /\ keys_file.settings = MkSettings(1, 1)
    /\ keys_file.keys \in {<<>>, <<"A">>, <<"A", "B">>}

NextSession ==
    \/ Tick
    \/ Acquire
    \/ Release
    \/ GenerateImage
    \/ GenerateVariations

SpecSession == InitSession /\ [][NextSession]_vars

\* the pool under repeated selection alone, every call eventually made
InitFair ==
    /\ Init
    /\ Len(api_keys) \in 2..3

NextFair ==
    \/ Tick
    \/ GetNextKey

SpecFair == InitFair /\ [][NextFair]_vars /\ WF_vars(Tick) /\ WF_vars(GetNextKey)

\* two callers inside get_next_key of one manager at the same time
InitConc ==
    /\ Init
    /\ Len(api_keys) <= 2

NextConc ==
    \/ Tick
    \/ T_Enter
    \/ T_Loop
    \/ T_Check
    \/ T_Advance
    \/ T_ReadUsage
    \/ T_WriteUsage
    \/ T_WriteTime

SpecConc == InitConc /\ [][NextConc]_vars

\* a manager that is used, reset and used again, and the manager constructed
\* at the reset, given the same calls at the same times
NextTwin ==
    \/ Tick
    \/ BothGetNextKey
    \/ BothMarkKeyError
    \/ ResetAndConstruct

SpecTwin == Init /\ [][NextTwin]_vars

\* the setup page on a pool that holds no credential twice and at most ten
InitSetup ==
    /\ Init
    /\ Distinct(api_keys)
    /\ Len(api_keys) <= MaxKeys

NextSetup ==
    \/ Tick
    \/ GetNextKey
    \/ AddSingleKey
    \/ AddMultipleKeys
    \/ ClearAllKeys

SpecSetup == InitSetup /\ [][NextSetup]_vars

\* two clients on one manager that holds two credentials
InitPair ==
    /\ InitSession
    /\ Len(api_keys) = 2

NextPair ==
    \/ Tick
    \/ Acquire
    \/ Release
    \/ GenerateFromPrompt
    \/ PeerAcquire
    \/ PeerRelease
    \/ PeerGenerateFromPrompt

SpecPair == InitPair /\ [][NextPair]_vars

\* the pool on a system whose clock reads less than the cooldowns
InitEarly == InitAt(EarlyEpoch)

NextEarly ==
    \/ TickEarly
    \/ GetNextKey
    \/ MarkKeyError

SpecEarly == InitEarly /\ [][NextEarly]_vars

\* the add handlers of the setup page on a pool in use, errors included, all
\* within one reading of the clock
InitReject ==
    /\ InitSetup
    /\ keys_file.status = "ok"
    /\ keys_file.has_settings
    /\ keys_file.settings = MkSettings(1, 1)

NextReject ==
    \/ GetNextKey
    \/ MarkKeyError
    \/ AddSingleKey
    \/ AddMultipleKeys

SpecReject == InitReject /\ [][NextReject]_vars

\* the operations that report an error or could: the pool, its statistics,
\* and a client acquiring and releasing
NextReport ==
    \/ Tick
    \/ GetNextKey
    \/ MarkKeyError
    \/ GetUsageStats
    \/ Acquire
    \/ Release

SpecReport == InitSession /\ [][NextReport]_vars

\* a client holding a lock while the operator replaces or clears the list
NextLock ==
    \/ Tick
    \/ Acquire
    \/ Release
    \/ AddApiKeys
    \/ ClearAllKeys

SpecLock == InitSession /\ [][NextLock]_vars

\* the pool and its reporting surface, on a file that holds settings
InitStats ==
    /\ Init
    /\ keys_file.status = "ok"
    /\ keys_file.settings \in FileSettings

NextStats ==
    \/ Tick
    \/ GetNextKey
    \/ MarkKeyError
    \/ ResetUsage
    \/ AddApiKeys
    \/ GetUsageStats
    \/ GetActiveKeysCount

SpecStats == InitStats /\ [][NextStats]_vars

(* ------------------------------- claims -------------------------------- *)

\* a step in which get_next_key is called, and the credential it returns
IsCall == Len(calls') = Len(calls) + 1
Returned == calls'[Len(calls')].r

IndexOf(keys, k) == CHOOSE i \in 1..Len(keys) : keys[i] = k

\* C1: a credential returned by get_next_key at time now had, before the
\* call, no recorded last use younger than the rate-limit cooldown and no
\* recorded last error younger than the error cooldown.
C1_CooldownSafety ==
    [][(IsCall /\ Returned # NoKey) =>
         /\ Returned \in DOMAIN rate_limits =>
              clock - rate_limits[Returned] >= rate_limit_cd(settings)
         /\ Returned \in DOMAIN error_counts =>
              clock - error_counts[Returned].last_error >= error_cd(settings)
      ]_vars

\* get_next_key has just returned a credential that had been used and
\* reported before, both cooldowns being positive
C1_Witness ==
    /\ op = "get_next_key"
    /\ ret # NoKey
    /\ rate_limit_cd(settings) > 0
    /\ error_cd(settings) > 0
    /\ ret \in DOMAIN usage_tracker
    /\ usage_tracker[ret] >= 2
    /\ ret \in DOMAIN error_counts

ScenarioTimes == <<Epoch, Epoch, Epoch, Epoch + 30, Epoch + 61>>
ScenarioKeys == <<"A", "B", "C", NoKey, "A">>

\* C2: on the pool [A,B,C] with a rate-limit cooldown of 60 s and no error
\* reported, calls at t = 0, 0, 0, 30, 61 after construction return
\* A, B, C, none, A, the three usage counts being 1 after the third.
C2_Scenario ==
    (/\ api_keys = <<"A", "B", "C">>
     /\ rate_limit_cd(settings) = 60
     /\ error_counts = EmptyMap
     /\ Len(calls) <= Len(ScenarioTimes)
     /\ \A i \in 1..Len(calls) : calls[i].t = ScenarioTimes[i])
    => /\ \A i \in 1..Len(calls) : calls[i].r = ScenarioKeys[i]
       /\ Len(calls) = 3 =>
            usage_tracker = [k \in {"A", "B", "C"} |-> 1]

\* C3: on a pool of n >= 1 distinct credentials, the first n calls after
\* construction, with nothing else done to the pool, return the credentials
\* once each in insertion order, whatever the cooldown and the spacing.
C3_RoundRobinOrder ==
    (/\ api_keys # <<>>
     /\ Distinct(api_keys)
     /\ error_counts = EmptyMap
     /\ Len(calls) <= Len(api_keys))
    => \A i \in 1..Len(calls) : calls[i].r = api_keys[i]

\* C4: after a get_next_key call that returned a credential, current_index
\* is one position (mod pool size) past the credential returned.
C4_CursorAdvance ==
    (/\ op = "get_next_key"
     /\ ret # NoKey
     /\ Distinct(api_keys))
    => current_index = IndexOf(api_keys, ret) % Len(api_keys)

C6_ErrorExclusion ==
    [][\A k \in DOMAIN error_counts :
         (IsCall /\ clock < error_counts[k].last_error + error_cd(settings))
         => /\ Returned # k
            /\ Range(api_keys) = {k} => Returned = NoKey
      ]_vars

\* the only credential of the pool, past its rate-limit cooldown but inside
\* its error cooldown, has just been refused
C6_Witness ==
    /\ op = "get_next_key"
    /\ ret = NoKey
    /\ Len(api_keys) = 1
    /\ api_keys[1] \in DOMAIN error_counts
    /\ clock < error_counts[api_keys[1]].last_error + error_cd(settings)
    /\ clock - last_used(rate_limits, api_keys[1]) >= rate_limit_cd(settings)
    /\ api_keys[1] \in DOMAIN rate_limits

\* C7: the credential list never holds more than 10 entries, the state
\* right after construction from the configuration file included.
C7_PoolSizeCap == Len(api_keys) <= MaxKeys

\* C8: a successful add_api_keys leaves the three tracking maps empty and
\* current_index at 0, and a get_next_key call that follows it returns the
\* first credential of the new list.
C8_ReplaceClearsTracking ==
    [][/\ (op' = "add_api_keys" /\ ret' = "true") =>
            /\ usage_tracker' = EmptyMap
            /\ rate_limits' = EmptyMap
            /\ error_counts' = EmptyMap
            /\ current_index' = 0
       /\ (op = "add_api_keys" /\ ret = "true" /\ IsCall /\ api_keys # <<>>) =>
            Returned = api_keys[1]
      ]_vars

\* add_api_keys has succeeded with a list whose first credential was on
\* cooldown before the call
C8_Witness ==
    /\ op = "add_api_keys"
    /\ ret = "true"
    /\ arg = "cooldown_discarded"
    /\ api_keys # <<>>
    /\ clock > Epoch

\* C9: with a lock held, _get_client_locked returns the held credential,
\* keeps the lock, does not call get_next_key and leaves current_index, the
\* usage counters and both timestamp maps as they are.
C9_LockReentry ==
    [][(locked_api_key # NoKey /\ Acquire) =>
         /\ ret' = locked_api_key
         /\ locked_api_key' = locked_api_key
         /\ arg' = "using_locked"
         /\ calls' = calls
         /\ UNCHANGED tracking
      ]_vars

\* the lock has been re-entered while the held credential is on cooldown
\* and another credential of the pool is not
C9_Witness ==
    /\ op = "acquire"
    /\ arg = "using_locked"
    /\ ret = locked_api_key
    /\ locked_api_key \in DOMAIN rate_limits
    /\ clock - rate_limits[locked_api_key] < rate_limit_cd(settings)
    /\ \E i \in 1..Len(api_keys) :
         /\ api_keys[i] # locked_api_key
         /\ api_keys[i] \notin DOMAIN rate_limits
         /\ api_keys[i] \notin DOMAIN error_counts

\* C10: after a workflow in which a remote call failed while the lock was
\* held on the credential used, that credential's last error is the time of
\* the failure and the lock is released.
C10_FailureUnderLock ==
    op \in {"generate", "generate_variations"} =>
      \A i \in 1..Len(remote) :
        (remote[i].outcome \in Failures /\ remote[i].held = remote[i].key) =>
          /\ remote[i].key \in DOMAIN error_counts
          /\ error_counts[remote[i].key].last_error = remote[i].t
          /\ locked_api_key = NoKey

Abs(x) == IF x < 0 THEN 0 - x ELSE x

\* C11: two callers whose get_next_key calls interleave are never given the
\* same credential at times closer than the rate-limit cooldown.
C11_NoDoubleAssignment ==
    \A t1, t2 \in Threads :
      (/\ t1 # t2
       /\ threads[t1].n > 0
       /\ threads[t2].n > 0
       /\ threads[t1].out # NoKey
       /\ threads[t1].out = threads[t2].out)
      => Abs(threads[t1].t - threads[t2].t) >= rate_limit_cd(settings)

\* C12: when no caller is inside get_next_key, the usage counters add up to
\* the number of credentials handed out.
C12_NoLostUsage ==
    (\A t \in Threads : threads[t].pc = "idle")
    => SumOver(usage_tracker, DOMAIN usage_tracker)
         = SumOver([t \in Threads |-> threads[t].n], Threads)

\* C13: after reset_usage, every get_next_key / mark_key_error call returns
\* what the same call at the same time returns on a manager newly constructed
\* with the same credential list and settings
C13_ResetEquivalence == twin.live => ret = twin.out

\* the reset cleared counters, errors and a moved cursor, and since then a
\* credential was returned, one reported and a call found none available
C13_Witness ==
    /\ twin.live
    /\ twin.dirty
    /\ op = "get_next_key"
    /\ ret = NoKey
    /\ error_counts # EmptyMap
    /\ \E i \in 1..Len(calls) : calls[i].r # NoKey

\* C14: reset_usage empties the usage counters, the last-use times and the
\* last-error times, sets current_index to 0, and leaves the credential list
\* and the settings as they were
C14_ResetEffectAndFrame ==
    [][op' = "reset_usage"
         => /\ usage_tracker' = EmptyMap
            /\ rate_limits' = EmptyMap
            /\ error_counts' = EmptyMap
            /\ current_index' = 0
            /\ UNCHANGED <<api_keys, settings, keys_file>>]_vars

\* a reset of a pool of several credentials whose first was on cooldown
C14_Witness ==
    /\ op = "reset_usage"
    /\ arg = "cooldown_discarded"
    /\ Len(api_keys) >= 2
    /\ usage_tracker = EmptyMap

\* the submitted texts with more than ten valid credentials, and a step in
\* which add_multiple_keys handles such a text
Oversized == {text \in Texts : Len(ValidKeys(text)) > MaxKeys}
Submitted(text) ==
    op' = "add_multiple_keys" /\ \E written \in BOOLEAN : add_multiple_keys(text, written)
FirstTen(text) == SubSeq(ValidKeys(text), 1, MaxKeys)

\* C15: the bulk add of more than ten valid credentials stores the first ten
\* in submission order, signals the truncation and is not reported as a failure
C15_BulkTruncation ==
    [][\A text \in Oversized :
         Submitted(text) => /\ api_keys' = FirstTen(text)
                            /\ arg' = "only_first_10"
                            /\ ret' # "failed"]_vars

\* C15, amended: the truncation is always signalled; the first ten are stored
\* and success is reported when the configuration file is written; when the
\* write fails a failure is reported and the stored list stays as it was
C15_BulkTruncationWhenWritten ==
    [][\A text \in Oversized :
         Submitted(text) =>
           /\ arg' = "only_first_10"
           /\ \/ /\ ret' = "added"
                 /\ api_keys' = FirstTen(text)
                 /\ keys_file'.keys = FirstTen(text)
              \/ /\ ret' = "failed"
                 /\ UNCHANGED <<api_keys, keys_file>>]_vars

\* eleven credentials were submitted over a pool of other credentials, and ten
\* are stored
C15_Witness ==
    /\ op = "add_multiple_keys"
    /\ arg = "only_first_10"
    /\ ret = "added"
    /\ api_keys = SubSeq(LongList, 1, MaxKeys)
    /\ Len(api_keys) = MaxKeys

\* C16: starting from a pool without duplicates, no sequence of single and
\* bulk adds stores a credential twice
C16_NoDuplicates == Distinct(api_keys)

\* C17: when no lock is held and get_next_key returns none, _get_client_locked
\* returns none after that one call, the lock stays absent and no usage or
\* timestamp is recorded
C17_AcquireOnExhaustion ==
    [][(/\ locked_api_key = NoKey
        /\ Acquire
        /\ Len(calls') > Len(calls)
        /\ calls'[Len(calls) + 1].r = NoKey)
       => /\ Len(calls') = Len(calls) + 1
          /\ ret' = NoKey
          /\ arg' = "no_keys"
          /\ locked_api_key' = NoKey
          /\ UNCHANGED <<usage_tracker, rate_limits, error_counts>>]_vars

\* acquire found every credential of a pool of two on cooldown
C17_Witness ==
    /\ op = "acquire"
    /\ arg = "no_keys"
    /\ ret = NoKey
    /\ locked_api_key = NoKey
    /\ Len(api_keys) = 2
    /\ \A i \in 1..Len(api_keys) : ~IsAvail(api_keys[i])

\* what unlock_session_key does to the session and leaves alone in the pool
ReleaseFrame ==
    Release => /\ locked_api_key' = NoKey
               /\ UNCHANGED <<tracking, api_keys, settings, keys_file>>

\* C18: unlock_session_key clears the lock and changes nothing in the pool;
\* the next _get_client_locked calls get_next_key once and pins what it
\* returns, never the released credential while that is on cooldown
C18_ReleaseThenAcquire ==
    [][/\ ReleaseFrame
       /\ (op = "release" /\ Acquire)
            => /\ IsCall
               /\ locked_api_key' = Returned
               /\ (arg # NoKey /\ ~IsAvail(arg)) => Returned # arg]_vars

\* C18, amended: what get_next_key returns is pinned unless creating the
\* client for it fails; then the credential gets a last-error time, none is
\* returned and the lock stays absent
C18_ReleaseThenAcquireCreated ==
    [][/\ ReleaseFrame
       /\ (op = "release" /\ Acquire)
            => /\ IsCall
               /\ IF arg' = "create_failed"
                    THEN /\ locked_api_key' = NoKey
                         /\ ret' = NoKey
                         /\ Returned # NoKey
                         /\ error_counts'[Returned].last_error = clock
                    ELSE /\ locked_api_key' = Returned
                         /\ ret' = Returned
               /\ (arg # NoKey /\ ~IsAvail(arg)) => Returned # arg]_vars

\* a credential was released while on cooldown and the acquire after it
\* pinned the other credential of the pool
C18_Witness ==
    /\ op = "acquire"
    /\ arg = "locked_new"
    /\ error_counts = EmptyMap
    /\ Len(calls) >= 2
    /\ calls[Len(calls)].r = locked_api_key
    /\ calls[Len(calls) - 1].r \notin {NoKey, locked_api_key}
    /\ ~IsAvail(calls[Len(calls) - 1].r)

\* the operations of the first client and of the second
FirstOps == {"acquire", "release", "generate"}
PeerOps == {"peer_acquire", "peer_release", "peer_generate"}

\* C19: two clients on one manager never hold the same credential, and an
\* operation of one client (release and failure included) leaves the
\* credential held by the other as it was
C19_IndependentLocks ==
    [][/\ (locked_api_key' # NoKey /\ peer'.locked # NoKey)
            => locked_api_key' # peer'.locked
       /\ op' \in FirstOps => peer'.locked = peer.locked
       /\ op' \in PeerOps => locked_api_key' = locked_api_key]_vars

\* C19, amended: an operation of one client leaves the other client's lock
\* as it was, and a client that takes a lock while the credential held by
\* the other is on cooldown takes a different credential
C19_IndependentLocksOnCooldown ==
    [][/\ op' \in FirstOps => peer' = peer
       /\ op' \in PeerOps => UNCHANGED session
       /\ (/\ op' \in PeerOps
           /\ peer.locked = NoKey
           /\ peer'.locked # NoKey
           /\ locked_api_key # NoKey
           /\ ~IsAvail(locked_api_key))
          => peer'.locked # locked_api_key
       /\ (/\ op' \in FirstOps
           /\ locked_api_key = NoKey
           /\ locked_api_key' # NoKey
           /\ peer.locked # NoKey
           /\ ~IsAvail(peer.locked))
          => locked_api_key' # peer.locked]_vars

\* both clients held a credential, different ones; the first client's
\* generation was rate-limited and its lock released; the second still holds
C19_Witness ==
    /\ op = "generate"
    /\ locked_api_key = NoKey
    /\ Len(remote) = 1
    /\ remote[1].outcome = "error_429"
    /\ remote[1].held # NoKey
    /\ peer.locked \notin {NoKey, remote[1].held}

\* C20: when add_api_keys fails to write the configuration it returns False
\* and leaves the credential list, the usage counters, both timestamp maps
\* and current_index as they were; it returns True only with the list written
C20_PersistenceFailureSafe ==
    [][/\ (op' = "add_api_keys" /\ ret' = "false")
            => UNCHANGED <<api_keys, tracking>>
       /\ (op' = "add_api_keys" /\ ret' = "true")
            => keys_file'.status = "ok" /\ keys_file'.keys = api_keys']_vars

\* a failed add_api_keys on a manager with recorded usage, a reported error
\* and a cursor that has moved
C20_Witness ==
    /\ op = "add_api_keys"
    /\ ret = "false"
    /\ api_keys # <<>>
    /\ usage_tracker # EmptyMap
    /\ error_counts # EmptyMap
    /\ current_index > 0

\* C21: a manager constructed on a missing or unreadable configuration file
\* has an empty credential list and the default settings; get_next_key
\* returns none on it and get_active_keys_count is 0
C21_SoftLoad ==
    keys_file.status \in {"missing", "corrupt"}
    => /\ api_keys = <<>>
       /\ settings = default_settings
       /\ get_active_keys_count = 0
       /\ op = "get_next_key" => ret = NoKey

\* get_next_key was called on a manager constructed on an unreadable file
C21_Witness ==
    /\ keys_file.status = "corrupt"
    /\ op = "get_next_key"
    /\ ret = NoKey
    /\ Len(calls) >= 1

\* what the get_next_key call of a step logged
LastCall == calls'[Len(calls')]

\* C22: a get_next_key call examines at most len(api_keys) credentials; on an
\* empty pool it examines none, changes nothing and returns none; when every
\* credential is unavailable it returns none
C22_BoundedScan ==
    [][(IsCall /\ op' = "get_next_key")
       => /\ LastCall.seen <= Len(api_keys)
          /\ api_keys = <<>>
               => /\ LastCall.seen = 0
                  /\ LastCall.r = NoKey
                  /\ UNCHANGED tracking
          /\ (\A i \in 1..Len(api_keys) : ~IsAvail(api_keys[i]))
               => LastCall.r = NoKey]_vars

\* every credential of a pool of several was examined and none returned
C22_Witness ==
    /\ op = "get_next_key"
    /\ ret = NoKey
    /\ Len(api_keys) >= 2
    /\ calls # <<>>
    /\ calls[Len(calls)].seen = Len(api_keys)

\* C23: a credential is available exactly when every recorded last use is at
\* least the rate-limit cooldown old and every recorded last error at least
\* the error cooldown old; one with nothing recorded is available whatever
\* the clock reads
C23_AvailabilityPredicate ==
    \A k \in Range(api_keys) :
       IsAvail(k) <=>
         /\ k \in DOMAIN rate_limits
              => clock - rate_limits[k] >= rate_limit_cd(settings)
         /\ k \in DOMAIN error_counts
              => clock - error_counts[k].last_error >= error_cd(settings)

\* the get_next_key calls since the last clearing that returned a credential
Successful == {i \in 1..Len(calls) : calls[i].r # NoKey}
PoolFrame == UNCHANGED <<tracking, api_keys, settings, keys_file>>

\* C24: between clearings a usage count never decreases and grows by one on
\* each get_next_key call that returns its credential; get_usage_stats
\* reports the length of the list, the number of credentials available now
\* and the number of successful get_next_key calls since the last clearing;
\* get_usage_stats and get_active_keys_count change nothing in the pool
\* (a step that sets op and leaves the clock alone is a call)
C24_UsageAccounting ==
    [][/\ op' \notin {"reset_usage", "add_api_keys"}
            => \A k \in DOMAIN usage_tracker :
                  /\ k \in DOMAIN usage_tracker'
                  /\ usage_tracker'[k] >= usage_tracker[k]
       /\ (IsCall /\ LastCall.r # NoKey)
            => usage_tracker'[LastCall.r] = Get(usage_tracker, LastCall.r, 0) + 1
       /\ (op' = "get_usage_stats" /\ clock' = clock)
            => /\ ret'.total_keys = Len(api_keys)
               /\ ret'.active_keys =
                     Cardinality({i \in 1..Len(api_keys) : IsAvail(api_keys[i])})
               /\ ret'.total_requests = Cardinality(Successful)
               /\ PoolFrame
       /\ (op' = "get_active_keys_count" /\ clock' = clock)
            => /\ ret' = Cardinality({i \in 1..Len(api_keys) : IsAvail(api_keys[i])})
               /\ PoolFrame]_vars

\* statistics taken after one credential was returned twice and another
\* once, while one of them is on cooldown
C24_Witness ==
    /\ op = "get_usage_stats"
    /\ ret.total_requests >= 3
    /\ ret.active_keys < ret.total_keys
    /\ ret.active_keys > 0
    /\ \E k \in DOMAIN usage_tracker : usage_tracker[k] >= 2

\* the credential at distance i from the cursor, in rotation order
AtOffset(i) == api_keys[((current_index + i) % Len(api_keys)) + 1]

\* C25: a get_next_key call that returns a credential returns the first one
\* in rotation order from current_index that is available, adds one to its
\* usage count and sets its last-use time to now, and leaves every other
\* count and last-use time and all last-error times as they were
C25_FirstHit ==
    [][(IsCall /\ op' = "get_next_key" /\ LastCall.r # NoKey)
       => /\ \E j \in 0..(Len(api_keys) - 1) :
               /\ AtOffset(j) = LastCall.r
               /\ IsAvail(AtOffset(j))
               /\ \A i \in 0..(j - 1) : ~IsAvail(AtOffset(i))
          /\ usage_tracker' =
               (LastCall.r :> (Get(usage_tracker, LastCall.r, 0) + 1))
                 @@ usage_tracker
          /\ rate_limits' = (LastCall.r :> clock) @@ rate_limits
          /\ UNCHANGED error_counts]_vars

\* a credential was returned after an unavailable one was passed over, with
\* usage and an error recorded for another credential
C25_Witness ==
    /\ op = "get_next_key"
    /\ ret # NoKey
    /\ calls # <<>>
    /\ calls[Len(calls)].seen >= 2
    /\ \E k \in DOMAIN usage_tracker : k # ret
    /\ \E k \in DOMAIN error_counts : k # ret

\* what mark_key_error(arg') does and leaves alone
ReportFrame ==
    (op' = "mark_key_error" /\ clock' = clock)
    => /\ error_counts' = (arg' :> [last_error |-> clock]) @@ error_counts
       /\ UNCHANGED <<usage_tracker, rate_limits, current_index, api_keys,
                      settings, session>>

\* C26: mark_key_error(c) sets the last-error time of c to now and changes
\* nothing else; get_next_key, get_usage_stats, acquire and release set no
\* last-error time
C26_ReportErrorExclusive ==
    [][/\ ReportFrame
       /\ op' \in {"get_next_key", "get_usage_stats", "acquire", "release"}
            => UNCHANGED error_counts]_vars

\* C26, amended: acquire sets a last-error time when creating the client for
\* the credential it was given fails, by calling mark_key_error for that
\* credential, and at no other time
C26_ReportErrorExclusiveButCreate ==
    [][/\ ReportFrame
       /\ op' \in {"get_next_key", "get_usage_stats", "release"}
            => UNCHANGED error_counts
       /\ (op' = "acquire" /\ clock' = clock)
            => IF arg' = "create_failed"
                 THEN /\ IsCall
                      /\ error_counts' =
                           (LastCall.r :> [last_error |-> clock]) @@ error_counts
                 ELSE UNCHANGED error_counts]_vars

\* an error was reported for a used credential, later than the error
\* reported for another, with the cursor moved
C26_Witness ==
    /\ op = "mark_key_error"
    /\ arg \in DOMAIN usage_tracker
    /\ arg \in DOMAIN error_counts
    /\ error_counts[arg].last_error = clock
    /\ current_index > 0
    /\ \E k \in DOMAIN error_counts : error_counts[k].last_error < clock

\* C27: within one workflow, after a remote call whose failure was reported
\* and followed by the release of the lock (a rate-limited call), no later
\* remote call is issued with the same credential
C27_NoCallAfterReport ==
    \A i, j \in 1..Len(remote) :
       (i < j /\ remote[i].outcome = "error_429")
       => remote[j].key # remote[i].key

\* the submitted texts with a valid entry and an entry that is not stored
WithRejects ==
    {text \in Texts : /\ ValidKeys(text) # <<>>
                      /\ \/ Len(ValidKeys(text)) < Len(text)
                         \/ Len(ValidKeys(text)) > MaxKeys}

\* C28: a single add of a credential already in the pool, or to a pool of
\* ten, is refused and leaves the list, the usage counters, both timestamp
\* maps and current_index as they were; a bulk add with entries that are not
\* accepted stores the valid entries, up to ten, whenever it stores at all
C28_RejectedAdd ==
    [][/\ (/\ op' = "add_single_key"
           /\ clock' = clock
           /\ arg' \in Range(api_keys) \/ Len(api_keys) >= MaxKeys)
          => /\ ret' \in {"already_added", "maximum_allowed"}
             /\ UNCHANGED <<api_keys, tracking, keys_file>>
       /\ (op' = "add_multiple_keys" /\ clock' = clock)
          => \A text \in WithRejects :
                Submitted(text)
                => \/ ret' = "added" /\ api_keys' = Truncate(ValidKeys(text))
                   \/ ret' = "failed" /\ UNCHANGED api_keys]_vars

\* a credential of the pool was submitted again while the pool had usage, a
\* reported error and a moved cursor
C28_Witness ==
    /\ op = "add_single_key"
    /\ ret = "already_added"
    /\ arg \in Range(api_keys)
    /\ usage_tracker # EmptyMap
    /\ error_counts # EmptyMap
    /\ current_index > 0

\* C29: with a non-empty pool current_index is a position of the list, after
\* any sequence of get_next_key, mark_key_error, reset_usage and add_api_keys
C29_CursorRange ==
    api_keys # <<>> => current_index \in 0..(Len(api_keys) - 1)

\* get_next_key has moved the cursor to the last position of a list of three
\* or more and returned the credential there
C29_Witness ==
    /\ op = "get_next_key"
    /\ Len(api_keys) >= 3
    /\ current_index = Len(api_keys) - 1
    /\ ret = api_keys[Len(api_keys)]

\* C30: a get_next_key call that finds every credential of a non-empty pool
\* unavailable leaves current_index, the usage counters and both timestamp
\* maps as they were
C30_FailedScanNoOp ==
    [][(/\ IsCall
        /\ op' = "get_next_key"
        /\ api_keys # <<>>
        /\ LastCall.r = NoKey)
       => UNCHANGED tracking]_vars

\* none was returned by a scan that started and ended away from position 0
C30_Witness ==
    /\ op = "get_next_key"
    /\ ret = NoKey
    /\ Len(api_keys) >= 2
    /\ current_index > 0
    /\ usage_tracker # EmptyMap

\* C31: a held session lock is a credential of the manager's list, also
\* after add_api_keys has replaced or cleared the list while it was held
C31_LockInPool ==
    locked_api_key # NoKey => locked_api_key \in Range(api_keys)

\* C32: the credentials with a usage count are the credentials with a
\* last-use time, each of them is in the credential list, and every usage
\* count is at least 1
C32_TrackingDomain ==
    /\ DOMAIN usage_tracker = DOMAIN rate_limits
    /\ DOMAIN usage_tracker \subseteq Range(api_keys)
    /\ \A k \in DOMAIN usage_tracker : usage_tracker[k] >= 1

\* two credentials have been used, one of them more than once, on a list
\* that was stored by add_api_keys
C32_Witness ==
    /\ op = "get_next_key"
    /\ keys_file.keys = api_keys
    /\ Cardinality(DOMAIN usage_tracker) >= 2
    /\ \E k \in DOMAIN usage_tracker : usage_tracker[k] >= 2
    /\ \E k \in Range(api_keys) : k \notin DOMAIN usage_tracker

====
